---- MODULE Spec2Model ----
(***************************************************************************)
(* Loan application system (src/project.py): any number of terminal        *)
(* sessions, each a process with its own autocommit connection to one      *)
(* shared PostgreSQL store holding the users, loans and payments tables.   *)
(* Every SQL statement commits on its own; a session blocks on input()     *)
(* between statements, so other sessions' statements interleave there.     *)
(*                                                                         *)
(* Money is counted in quarters of a cent (Sub per cent): Python holds     *)
(* amounts as floats, the store as DECIMAL(10,2), and every write to the   *)
(* store rounds to whole cents.  The payment and principal inputs below    *)
(* keep every float subtraction off the exact half-cent boundary, where    *)
(* binary rounding error would decide the direction.                       *)
(***************************************************************************)
EXTENDS Integers, Sequences, FiniteSets, TLC

VARIABLES users, loans, payments, sess, wasApproved, failures

vars == <<users, loans, payments, sess, wasApproved, failures>>

\* ---------------------------------------------------------------- bounds
NumSessions == 2
MaxUsers == 2
MaxLoans == 1
MaxPayments == 2
MaxFailures == 1
\* loans in the runs that need two loans side by side
MaxLoansWide == 2

\* quarter-cent units per cent: DECIMAL(10,2) keeps whole cents
Sub == 4

Sessions == 1..NumSessions
Usernames == {"admin", "alice", "bob"}
\* inputs typed at the prompts, in quarter cents (float(input(...)))
PrincipalInputs == {0 - Sub, 0, Sub, 2 * Sub}
PaymentInputs == {0, 1, 3, Sub, 2 * Sub}
TermInputs == {0, 1, 24, 120, 144}

\* ------------------------------------------------------- pure functions
Abs(x) == IF x < 0 THEN 0 - x ELSE x

\* NUMERIC(p,2) assignment: round to the nearest cent, halves away from zero
RoundCents(x) ==
    LET m == ((2 * Abs(x) + Sub) \div (2 * Sub)) * Sub
    IN  IF x < 0 THEN 0 - m ELSE m

\* the rate without its cap of 15.0
InterestRateNoCap(term) ==
    LET n == 100 * term
    IN  500 + (IF n >= 0 THEN (2 * n + 12) \div 24
                         ELSE 0 - ((2 * (0 - n) + 12) \div 24))

\* interest_rate = min(5.0 + term / 12, 15.0), kept as DECIMAL(5,2):
\* the value in hundredths of a percent
InterestRate(term) ==
    LET n == 100 * term
        r == IF n >= 0 THEN (2 * n + 12) \div 24
                       ELSE 0 - ((2 * (0 - n) + 12) \div 24)
        h == 500 + r
    IN  IF h < 1500 THEN h ELSE 1500

NoLoan == [loan_id |-> 0]

Idle(u) == [pc |-> "menu", user |-> u, loan |-> NoLoan, amt |-> 0,
            pending |-> <<>>]

\* Loan(*row): the object built from a SELECT * row
LoanObject(id) ==
    [loan_id |-> id,
     user_id |-> loans[id].user_id,
     amount |-> loans[id].amount,
     term |-> loans[id].term,
     interest_rate |-> loans[id].interest_rate,
     status |-> loans[id].status,
     created_at |-> loans[id].created_at,
     current_balance |-> loans[id].current_balance,
     ver |-> loans[id].ver]

\* Loan.save, UPDATE branch: the whole row is replaced by the object's
\* fields; bump = 1 for the balance write of Loan.make_payment (ver counts
\* those writes and is not a column)
SaveLoan(obj, bump) ==
    [loans EXCEPT ![obj.loan_id] =
        [user_id |-> obj.user_id,
         amount |-> RoundCents(obj.amount),
         term |-> obj.term,
         interest_rate |-> obj.interest_rate,
         status |-> obj.status,
         created_at |-> obj.created_at,
         current_balance |-> RoundCents(obj.current_balance),
         ver |-> loans[obj.loan_id].ver + bump]]

\* loans whose stored status has been 'approved' at some point
NoteApproved(ls) == wasApproved \cup {l \in DOMAIN ls : ls[l].status = "approved"}

\* the WHERE clause left out: every loan is listed
UserLoansAll(u) == DOMAIN loans

\* Loan.get_user_loans: ids of the rows WHERE user_id = %s
UserLoans(u) == {l \in DOMAIN loans : loans[l].user_id = u}

\* approve_loans' query: loans JOIN users WHERE status = 'pending'
PendingLoans == {l \in DOMAIN loans :
                    /\ loans[l].status = "pending"
                    /\ loans[l].user_id \in DOMAIN users}

\* the orders in which a result set without ORDER BY may come back
Orderings(S) == {q \in [1..Cardinality(S) -> S] :
                    \A i, j \in 1..Cardinality(S) : i # j => q[i] # q[j]}

\* one row of the pending query: l.* joined with u.username (the prompt
\* uses loan[0], the id, and shows loan[8], the username)
PendingRow(l) == [loan_id |-> l, username |-> users[loans[l].user_id].username]

\* every user passes for an admin
IsAdminAnyone(u) == u \in DOMAIN users

\* current_user.is_admin: run offers "Admin Functions" to admins only
IsAdmin(u) == users[u].is_admin

\* the loan comes out already approved
NewLoanApproved(u, amount, term) ==
    [user_id |-> u,
     amount |-> RoundCents(amount),
     term |-> term,
     interest_rate |-> InterestRate(term),
     status |-> "approved",
     created_at |-> Len(loans) + 1,
     current_balance |-> RoundCents(amount),
     ver |-> 0]

\* Loan(None, user_id, amount, term, interest_rate, 'pending', now, amount)
\* as its INSERT stores it
NewLoan(u, amount, term) ==
    [user_id |-> u,
     amount |-> RoundCents(amount),
     term |-> term,
     interest_rate |-> InterestRate(term),
     status |-> "pending",
     created_at |-> Len(loans) + 1,
     current_balance |-> RoundCents(amount),
     ver |-> 0]

\* the WHERE clause left out: every loan gets the status
SetStatusEveryLoan(l, status) == [k \in DOMAIN loans |-> [loans[k] EXCEPT !.status = status]]

\* UPDATE loans SET status = %s WHERE loan_id = %s
SetStatus(l, status) == [loans EXCEPT ![l].status = status]

\* the status test left out: any loan the user owns may be paid
PayableAnyStatus(loan) == loan.status \in {"pending", "approved", "rejected", "paid"}

\* the loan may be paid: make_payment's status test on the object it read
Payable(loan) == loan.status = "approved"

\* sessions between the balance UPDATE and the INSERT of their payment row
InFlight == Cardinality({s \in Sessions : sess[s].pc = "pay_insert"})

\* ---------------------------------------------------------------- Init
\* after _initialize_database: the three tables exist, admin is seeded,
\* every session sits at the logged-out menu
Init ==
    /\ users = <<[username |-> "admin", is_admin |-> TRUE]>>
    /\ loans = <<>>
    /\ payments = <<>>
    /\ sess = [s \in Sessions |-> Idle(0)]
    /\ wasApproved = {}
    /\ failures = 0

\* ------------------------------------------------------------- actions
\* register: username must be new; INSERT INTO users (never an admin)
Register(s, name) ==
    /\ sess[s].pc = "menu" /\ sess[s].user = 0
    /\ Len(users) < MaxUsers
    /\ \A u \in DOMAIN users : users[u].username # name
    /\ users' = Append(users, [username |-> name, is_admin |-> FALSE])
    /\ UNCHANGED <<loans, payments, sess, wasApproved, failures>>

\* login: an existing user with the right password becomes current_user
Login(s, u) ==
    /\ sess[s].pc = "menu" /\ sess[s].user = 0
    /\ u \in DOMAIN users
    /\ sess' = [sess EXCEPT ![s] = Idle(u)]
    /\ UNCHANGED <<users, loans, payments, wasApproved, failures>>

\* run: the Logout choice of either menu
Logout(s) ==
    /\ sess[s].pc = "menu" /\ sess[s].user # 0
    /\ sess' = [sess EXCEPT ![s] = Idle(0)]
    /\ UNCHANGED <<users, loans, payments, wasApproved, failures>>

\* apply_for_loan: one INSERT INTO loans; no test on amount or term
\* (cap bounds the number of loans of the run)
RequestLoan(s, amount, term, cap) ==
    /\ sess[s].pc = "menu" /\ sess[s].user # 0
    /\ Len(loans) < cap
    /\ loans' = Append(loans, NewLoan(sess[s].user, amount, term))
    /\ UNCHANGED <<users, payments, sess, wasApproved, failures>>

ApplyForLoan(s, amount, term) == RequestLoan(s, amount, term, MaxLoans)

\* LoanApplicationSystem.make_payment up to the amount prompt: read the
\* user's loans, pick one, refuse it unless the object says 'approved'
PaySelect(s, l) ==
    /\ sess[s].pc = "menu" /\ sess[s].user # 0
    /\ l \in UserLoans(sess[s].user)
    /\ Payable(LoanObject(l))
    /\ sess' = [sess EXCEPT ![s].pc = "pay_amount", ![s].loan = LoanObject(l)]
    /\ UNCHANGED <<users, loans, payments, wasApproved, failures>>

\* the amount prompt and Loan.make_payment up to its first save: both
\* tests are made on the object read by PaySelect; a refused amount
\* returns to the menu, an accepted one commits the balance UPDATE
PayApply(s, amount) ==
    /\ sess[s].pc = "pay_amount"
    /\ LET obj == sess[s].loan IN
       IF amount <= 0 \/ amount > obj.current_balance
       THEN /\ sess' = [sess EXCEPT ![s] = Idle(sess[s].user)]
            /\ UNCHANGED <<loans, wasApproved>>
       ELSE LET paid == [obj EXCEPT !.current_balance = @ - amount] IN
            /\ Len(payments) + InFlight < MaxPayments
            /\ loans' = SaveLoan(paid, 1)
            /\ wasApproved' = NoteApproved(loans')
            /\ sess' = [sess EXCEPT ![s].pc = "pay_insert",
                                    ![s].loan = paid, ![s].amt = amount]
    /\ UNCHANGED <<users, payments, failures>>

\* Payment.create(...).save: INSERT INTO payments, then the in-memory
\* test current_balance == 0 decides whether a second save follows.
\* ver, seen and asked are history, not columns: the balance write count
\* and the balance the payer had read, and the amount as typed
PayInsert(s) ==
    /\ sess[s].pc = "pay_insert"
    /\ payments' = Append(payments,
            [loan_id |-> sess[s].loan.loan_id,
             amount |-> RoundCents(sess[s].amt),
             payment_date |-> Len(payments) + 1,
             ver |-> sess[s].loan.ver,
             seen |-> sess[s].loan.current_balance + sess[s].amt,
             asked |-> sess[s].amt])
    /\ sess' = IF sess[s].loan.current_balance = 0
               THEN [sess EXCEPT ![s].pc = "pay_flip"]
               ELSE [sess EXCEPT ![s] = Idle(sess[s].user)]
    /\ UNCHANGED <<users, loans, wasApproved, failures>>

\* status = 'paid'; save: the second full-row UPDATE
PayFlip(s) ==
    /\ sess[s].pc = "pay_flip"
    /\ loans' = SaveLoan([sess[s].loan EXCEPT !.status = "paid"], 0)
    /\ wasApproved' = NoteApproved(loans')
    /\ sess' = [sess EXCEPT ![s] = Idle(sess[s].user)]
    /\ UNCHANGED <<users, payments, failures>>

\* approve_loans up to its prompt: the pending query; only the admin
\* menu leads here
DecideRead(s) ==
    /\ sess[s].pc = "menu" /\ sess[s].user # 0
    /\ IsAdmin(sess[s].user)
    /\ PendingLoans # {}
    /\ \E q \in Orderings(PendingLoans) :
          sess' = [sess EXCEPT ![s].pc = "decide",
                               ![s].pending = [i \in DOMAIN q |-> PendingRow(q[i])]]
    /\ UNCHANGED <<users, loans, payments, wasApproved, failures>>

\* the choice and action prompts, then UPDATE loans SET status WHERE
\* loan_id: no test of the stored status; a choice outside the list
\* prints "Invalid selection." and writes nothing
DecideApply(s, choice, status) ==
    /\ sess[s].pc = "decide"
    /\ IF choice \in DOMAIN sess[s].pending
       THEN loans' = SetStatus(sess[s].pending[choice].loan_id, status)
       ELSE loans' = loans
    /\ wasApproved' = NoteApproved(loans')
    /\ sess' = [sess EXCEPT ![s] = Idle(sess[s].user)]
    /\ UNCHANGED <<users, payments, failures>>

\* the store fails or the process is killed while the session is inside
\* an operation: the exception reaches __main__, which closes and exits;
\* whatever the session had committed stays committed
StoreFail(s) ==
    /\ sess[s].pc \in {"pay_amount", "pay_insert", "pay_flip", "decide"}
    /\ failures < MaxFailures
    /\ failures' = failures + 1
    /\ sess' = [sess EXCEPT ![s] = [Idle(0) EXCEPT !.pc = "exited"]]
    /\ UNCHANGED <<users, loans, payments, wasApproved>>

\* the program is started again on that terminal
Start(s) ==
    /\ sess[s].pc = "exited"
    /\ sess' = [sess EXCEPT ![s] = Idle(0)]
    /\ UNCHANGED <<users, loans, payments, wasApproved, failures>>

Next ==
    \E s \in Sessions :
        \/ \E name \in Usernames : Register(s, name)
        \/ \E u \in 1..MaxUsers : Login(s, u)
        \/ Logout(s)
        \/ \E a \in PrincipalInputs, t \in TermInputs : ApplyForLoan(s, a, t)
        \/ \E l \in 1..MaxLoans : PaySelect(s, l)
        \/ \E a \in PaymentInputs : PayApply(s, a)
        \/ PayInsert(s)
        \/ PayFlip(s)
        \/ DecideRead(s)
        \/ \E c \in 0..MaxLoans, d \in {"approved", "rejected"} : DecideApply(s, c, d)
        \/ StoreFail(s)
        \/ Start(s)

Spec == Init /\ [][Next]_vars

\* one session working alone: every operation runs to completion before
\* the next one starts and the store never fails
SeqStep(s) ==
    \/ \E name \in Usernames : Register(s, name)
    \/ \E u \in 1..MaxUsers : Login(s, u)
    \/ Logout(s)
    \/ \E a \in PrincipalInputs, t \in TermInputs : ApplyForLoan(s, a, t)
    \/ \E l \in 1..MaxLoans : PaySelect(s, l)
    \/ \E a \in PaymentInputs : PayApply(s, a)
    \/ PayInsert(s)
    \/ PayFlip(s)
    \/ DecideRead(s)
    \/ \E c \in 0..MaxLoans, d \in {"approved", "rejected"} : DecideApply(s, c, d)

NextSeq == SeqStep(1)

SpecSeq == Init /\ [][NextSeq]_vars

\* the same sessions with room for two loans: one term, no store failure
WideStep(s) ==
    \/ \E name \in Usernames : Register(s, name)
    \/ \E u \in 1..MaxUsers : Login(s, u)
    \/ Logout(s)
    \/ \E a \in PrincipalInputs : RequestLoan(s, a, 24, MaxLoansWide)
    \/ \E l \in 1..MaxLoansWide : PaySelect(s, l)
    \/ \E a \in PaymentInputs : PayApply(s, a)
    \/ PayInsert(s)
    \/ PayFlip(s)
    \/ DecideRead(s)
    \/ \E c \in 0..MaxLoansWide, d \in {"approved", "rejected"} : DecideApply(s, c, d)

NextWide == \E s \in Sessions : WideStep(s)

SpecWide == Init /\ [][NextWide]_vars

\* ------------------------------------------------------------ properties
RECURSIVE SumRows(_, _, _)
\* sum of field f ("amount" as stored, "asked" as typed) over the first n
\* payment rows that belong to loan l
SumRows(l, f, n) ==
    IF n = 0 THEN 0
    ELSE SumRows(l, f, n - 1)
         + (IF payments[n].loan_id = l THEN payments[n][f] ELSE 0)

PaidSum(l) == SumRows(l, "amount", Len(payments))
AskedSum(l) == SumRows(l, "asked", Len(payments))
RowsOf(l) == {i \in DOMAIN payments : payments[i].loan_id = l}

\* C1: for every loan, in every state of the store, principal minus the
\* sum of its payment rows equals the stored current balance.
C1_Conservation ==
    \A l \in DOMAIN loans :
        loans[l].amount - PaidSum(l) = loans[l].current_balance

\* C2: two payments of whole cents applied concurrently to one loan (both
\* payers read the loan before either wrote it), whose amounts together
\* exceed the balance they read, never both succeed, i.e. never both leave
\* a payment row.
C2_ExactlyOneSucceeds ==
    \A i, j \in DOMAIN payments :
        (/\ i < j
         /\ payments[i].loan_id = payments[j].loan_id
         /\ payments[i].ver = payments[j].ver
         /\ payments[i].seen = payments[j].seen
         /\ payments[i].asked = payments[i].amount
         /\ payments[j].asked = payments[j].amount)
        => payments[i].asked + payments[j].asked <= payments[i].seen

LegalStatusStep(a, b) ==
    \/ a = b
    \/ a = "pending" /\ b \in {"approved", "rejected"}
    \/ a = "approved" /\ b = "paid"

\* C3: every step leaves each loan's stored status unchanged or moves it
\* along Pending->Approved, Pending->Rejected or Approved->Paid.
C3_StatusOrder ==
    [][\A l \in DOMAIN loans :
          LegalStatusStep(loans[l].status, loans'[l].status)]_vars

\* C4: a loan whose stored status is Paid has stored balance 0 and has had
\* stored status Approved before.
C4_PaidMeansZero ==
    \A l \in DOMAIN loans :
        loans[l].status = "paid"
        => loans[l].current_balance = 0 /\ l \in wasApproved

C4_Witness ==
    \E l \in DOMAIN loans :
        /\ loans[l].status = "paid"
        /\ loans[l].amount > 0
        /\ RowsOf(l) # {}

\* C5: a Decide step leaves every loan that is no longer Pending in the
\* store exactly as it was (the second decision fails).
C5_NoRedecide ==
    [][\A s \in Sessions : \A l \in DOMAIN loans :
          (/\ sess[s].pc = "decide"
           /\ sess'[s].pc = "menu"
           /\ loans[l].status # "pending")
          => loans'[l] = loans[l]]_vars

\* C6: a step that decrements a loan's stored balance or inserts a payment
\* row for it happens only while the loan's stored status is Approved.
C6_PayOnlyApproved ==
    [][\A l \in DOMAIN loans :
          (\/ loans'[l].current_balance # loans[l].current_balance
           \/ /\ Len(payments') > Len(payments)
              /\ payments'[Len(payments')].loan_id = l)
          => loans[l].status = "approved"]_vars

\* C7: one session alone: once payments whose positive amounts sum exactly
\* to the principal of an approved loan have been applied, the stored
\* balance is 0 and the stored status is Paid.
C7_PaysOff ==
    \A l \in DOMAIN loans :
        (/\ sess[1].pc = "menu"
         /\ l \in wasApproved
         /\ loans[l].amount > 0
         /\ AskedSum(l) = loans[l].amount)
        => loans[l].current_balance = 0 /\ loans[l].status = "paid"

\* C8: a payment whose amount exceeds the loan's stored balance at the
\* moment it is applied is refused: no ApplyPayment step commits one.
C8_OverpayRefused ==
    [][\A s \in Sessions :
          (sess[s].pc = "pay_amount" /\ sess'[s].pc = "pay_insert")
          => sess'[s].amt <= loans[sess[s].loan.loan_id].current_balance]_vars

\* no session is between the first and the last statement of a payment
Quiescent == \A s \in Sessions : sess[s].pc \notin {"pay_insert", "pay_flip"}

\* C9: the effects of a payment commit together or not at all: whenever no
\* payment is in progress (each one finished or was abandoned), every
\* committed balance decrement of a loan has its payment row, and a loan
\* with a payment row that paid the whole balance its payer read is Paid.
C9_AllOrNothing ==
    Quiescent =>
        \A l \in DOMAIN loans :
            /\ loans[l].ver = Cardinality(RowsOf(l))
            /\ \A i \in RowsOf(l) :
                  payments[i].asked = payments[i].seen
                  => loans[l].status = "paid"

\* C10: every loan's stored balance is >= 0 in every state.
C10_NonNegative ==
    \A l \in DOMAIN loans : loans[l].current_balance >= 0

\* C11: a Request with principal <= 0 or termMonths <= 0 creates no loan
\* row: every stored loan has a positive principal and a positive term.
C11_RequestValidated ==
    \A l \in DOMAIN loans : loans[l].amount > 0 /\ loans[l].term > 0

\* C12: a step that takes a loan's stored status from Pending to Approved
\* or Rejected is the Decide step of a session whose user is an admin, and
\* no session of a non-admin is ever inside Decide.
C12_DecideOnlyAdmin ==
    /\ [](\A s \in Sessions :
            sess[s].pc = "decide" => users[sess[s].user].is_admin)
    /\ [][\A l \in DOMAIN loans :
            (/\ loans[l].status = "pending"
             /\ loans'[l].status \in {"approved", "rejected"})
            => \E s \in Sessions :
                  /\ sess[s].pc = "decide" /\ sess'[s].pc = "menu"
                  /\ users[sess[s].user].is_admin]_vars

C12_Witness ==
    \E l \in DOMAIN loans :
        /\ loans[l].status \in {"approved", "rejected"}
        /\ ~users[loans[l].user_id].is_admin
        /\ \E s \in Sessions : sess[s].user = loans[l].user_id

\* C13: every payment is applied by a session whose user owns the loan or
\* is an admin.
C13_PayerOwnsLoan ==
    [][\A s \in Sessions :
          (sess[s].pc = "pay_amount" /\ sess'[s].pc = "pay_insert")
          => \/ loans[sess[s].loan.loan_id].user_id = sess[s].user
             \/ users[sess[s].user].is_admin]_vars

C13_Witness ==
    \E s \in Sessions :
        /\ sess[s].pc = "pay_insert"
        /\ ~users[sess[s].user].is_admin
        /\ loans[sess[s].loan.loan_id].user_id = sess[s].user
        /\ \E t \in Sessions : t # s /\ sess[t].user # 0 /\ users[sess[t].user].is_admin

\* C14: a step that creates a loan creates exactly one, owned by the user
\* of a session at its menu, Pending, with balance equal to its principal,
\* and changes no other loan, no user and no payment.
C14_RequestCreatesOne ==
    [][Len(loans') # Len(loans) =>
          /\ Len(loans') = Len(loans) + 1
          /\ \A l \in DOMAIN loans : loans'[l] = loans[l]
          /\ users' = users /\ payments' = payments
          /\ loans'[Len(loans')].status = "pending"
          /\ loans'[Len(loans')].current_balance = loans'[Len(loans')].amount
          /\ \E s \in Sessions :
                /\ sess[s].pc = "menu" /\ sess'[s] = sess[s]
                /\ sess[s].user = loans'[Len(loans')].user_id]_vars

C14_Witness ==
    /\ Len(loans) = 2
    /\ loans[1].status = "approved" /\ RowsOf(1) # {}
    /\ loans[2].status = "pending"
    /\ loans[2].user_id # loans[1].user_id

\* C15: the pending query returns exactly the loans that are Pending, each
\* with its owner's username, most recent created_at first.
C15_PendingQueueOrdered ==
    [][\A s \in Sessions :
          (sess[s].pc = "menu" /\ sess'[s].pc = "decide") =>
             LET q == sess'[s].pending IN
             /\ {q[i].loan_id : i \in DOMAIN q}
                   = {l \in DOMAIN loans : loans[l].status = "pending"}
             /\ \A i \in DOMAIN q :
                   q[i].username = users[loans[q[i].loan_id].user_id].username
             /\ \A i, j \in DOMAIN q :
                   i < j => loans[q[i].loan_id].created_at
                               > loans[q[j].loan_id].created_at]_vars

\* 12 times the rate of the formula min(5 + t/12, 15), in hundredths
RateTimes12(t) == IF 60 + t < 180 THEN 100 * (60 + t) ELSE 18000

\* C16 as stated: every stored rate is exactly min(5 + termMonths/12, 15),
\* and no step changes it.
C16_RateExact ==
    /\ [](\A l \in DOMAIN loans :
            12 * loans[l].interest_rate = RateTimes12(loans[l].term))
    /\ [][\A l \in DOMAIN loans :
            loans'[l].interest_rate = loans[l].interest_rate]_vars

\* C16 amended: every stored rate is min(5 + termMonths/12, 15) rounded to
\* two decimals (7.00 for 24 months, 15.00 from 120 months on), and no
\* step changes the rate or the term of a loan.
C16_RateRounded ==
    /\ [](\A l \in DOMAIN loans :
            LET t == loans[l].term
                r == loans[l].interest_rate IN
            /\ 2 * Abs(12 * r - RateTimes12(t)) <= 12
            /\ t = 24 => r = 700
            /\ t >= 120 => r = 1500)
    /\ [][\A l \in DOMAIN loans :
            /\ loans'[l].interest_rate = loans[l].interest_rate
            /\ loans'[l].term = loans[l].term]_vars

C16_Witness ==
    \E l \in DOMAIN loans :
        /\ loans[l].term = 144 /\ loans[l].interest_rate = 1500
        /\ loans[l].status = "paid"

\* C17: no step writes a stored balance larger than the one before it.
C17_BalanceNonIncreasing ==
    [][\A l \in DOMAIN loans :
          loans'[l].current_balance <= loans[l].current_balance]_vars

\* C18: the payment rows of a loan never sum to more than its principal.
C18_PaidWithinPrincipal ==
    \A l \in DOMAIN loans : RowsOf(l) # {} => PaidSum(l) <= loans[l].amount

\* C19: for a loan that has been Approved, the stored balance is 0 exactly
\* when the stored status is Paid.
C19_ZeroIffPaid ==
    \A l \in wasApproved :
        (loans[l].current_balance = 0) <=> (loans[l].status = "paid")

\* C20: payment rows are never changed or removed, and every payment row
\* recorded has an amount > 0.
C20_AppendOnly ==
    [][/\ Len(payments') >= Len(payments)
       /\ \A i \in DOMAIN payments : payments'[i] = payments[i]
       /\ \A i \in DOMAIN payments' : payments'[i].amount > 0]_vars

\* C21: a Decide step changes at most the status of one loan: every other
\* field of that loan, every field of every other loan, and the users and
\* payment rows stay as they were.
C21_DecideFrame ==
    [][\A s \in Sessions :
          (sess[s].pc = "decide" /\ sess'[s].pc = "menu") =>
             /\ payments' = payments /\ users' = users
             /\ DOMAIN loans' = DOMAIN loans
             /\ \A l \in DOMAIN loans :
                   loans'[l] = [loans[l] EXCEPT !.status = loans'[l].status]
             /\ \A l, k \in DOMAIN loans :
                   (/\ loans'[l].status # loans[l].status
                    /\ loans'[k].status # loans[k].status) => l = k]_vars

C21_Witness ==
    /\ Len(loans) = 2
    /\ loans[1].status = "approved" /\ RowsOf(1) # {}
    /\ loans[1].current_balance # loans[1].amount
    /\ loans[2].status = "rejected"

\* C22: one session alone, every loan with principal > 0: after every
\* completed ApplyPayment, principal minus the loan's payment rows equals
\* the stored balance, and the stored status is Paid exactly when the
\* stored balance is 0.
C22_SequentialConsistent ==
    (/\ sess[1].pc = "menu"
     /\ \A k \in DOMAIN loans : loans[k].amount > 0)
    => \A l \in DOMAIN loans :
          RowsOf(l) # {} =>
             /\ loans[l].amount - PaidSum(l) = loans[l].current_balance
             /\ (loans[l].status = "paid") <=> (loans[l].current_balance = 0)

TypeOK ==
    /\ Len(users) <= MaxUsers
    /\ Len(loans) <= MaxLoansWide
    /\ Len(payments) <= MaxPayments
    /\ \A l \in DOMAIN loans :
          loans[l].status \in {"pending", "approved", "rejected", "paid"}

====
